---- MODULE Spec2Model ----
(***************************************************************************)
(* Selective-disclosure Merkle engine of concerto-core: the salt, root,    *)
(* proof and verify visitors and the Merkle facade that drives them.       *)
(*                                                                         *)
(* Bytes are symbolic.  A Buffer is [buf |-> <<atoms>>]; an atom is one    *)
(* character of a serialized value ([ch |-> c], 1 byte), the output of one *)
(* crypto.randomBytes(32) call ([rnd |-> k], 32 bytes) or one SHA-256      *)
(* digest ([sha256 |-> <<atoms>>], 32 bytes).  SHA-256 is collision free   *)
(* and randomBytes never repeats a value.                                  *)
(***************************************************************************)
EXTENDS Integers, Sequences, FiniteSets, TLC

VARIABLES
    heap,       \* the typed objects: id -> [type, vals, salts]
    typed,      \* the top-level Resource the calls are made on
    rnd,        \* number of crypto.randomBytes(32) values drawn so far
    saltCalls,  \* number of Merkle.salt calls made
    rootOut,    \* what the last Merkle.root call gave its caller, and the heap it ran on
    proofOut,   \* what the last Merkle.proof call gave its caller, and the heap it ran on
    last        \* the last call made on the Merkle object: its inputs and outcome

vars == <<heap, typed, rnd, saltCalls, rootOut, proofOut, last>>

-----------------------------------------------------------------------------
(* Bounds *)

MaxSaltCalls == 2

\* nested visitClassDeclaration calls of one verify walk the call stack has room for
MaxDepth == 3

-----------------------------------------------------------------------------
(* JavaScript values *)

Undefined == [t |-> "undefined"]
Null == [t |-> "null"]
VString(chars) == [t |-> "String", s |-> chars]
VBoolean(b) == [t |-> "Boolean", b |-> b]
VInteger(n) == [t |-> "Integer", n |-> n]
VResource(id) == [t |-> "Resource", ref |-> id]

IsResource(v) == v.t = "Resource"

\* a Buffer object
Buf(atoms) == [buf |-> atoms]

IsBuffer(e) == DOMAIN e = {"buf"}

Ch(c) == [ch |-> c]

\* bytes an atom stands for
AtomLen(a) == IF DOMAIN a = {"ch"} THEN 1 ELSE 32

RECURSIVE ByteLen(_)
ByteLen(atoms) ==
    IF atoms = <<>> THEN 0 ELSE AtomLen(Head(atoms)) + ByteLen(Tail(atoms))

RECURSIVE Digits(_)
Digits(n) ==
    LET d == <<"0", "1", "2", "3", "4", "5", "6", "7", "8", "9">>[(n % 10) + 1]
    IN  IF n < 10 THEN <<Ch(d)>> ELSE Digits(n \div 10) \o <<Ch(d)>>

\* JSON.stringify of a primitive value, as the UTF-8 bytes hash.update(s, 'utf8') feeds
JSONStringify(value) ==
    CASE value.t = "String" ->
            <<Ch("\"")>> \o [i \in 1..Len(value.s) |-> Ch(value.s[i])] \o <<Ch("\"")>>
      [] value.t = "Boolean" ->
            IF value.b THEN <<Ch("t"), Ch("r"), Ch("u"), Ch("e")>>
                       ELSE <<Ch("f"), Ch("a"), Ch("l"), Ch("s"), Ch("e")>>
      [] value.t = "Integer" ->
            IF value.n < 0 THEN <<Ch("-")>> \o Digits(0 - value.n) ELSE Digits(value.n)
      [] value.t = "null" -> <<Ch("n"), Ch("u"), Ch("l"), Ch("l")>>
      [] value.t = "Resource" -> <<Ch("{"), Ch(value.ref), Ch("}")>>
      [] OTHER -> <<>>

\* values JSON.stringify turns into a string: undefined gives undefined, an object
\* gives the serialization of its properties (written here as the object between braces)
Stringifiable(value) == value.t \in {"String", "Boolean", "Integer", "null", "Resource"}

\* faulty variant: a digest that does not depend on the order of the bytes fed to it
Sha256_unordered(atoms) == Buf(<<[sha256 |-> {atoms[i] : i \in DOMAIN atoms}]>>)

\* crypto.createHash('sha256') ... digest() over the concatenated updates
Sha256(atoms) == Buf(<<[sha256 |-> atoms]>>)

\* Buffer.toString('hex'): lowercase digits, atom by atom
ToHex(b) == [i \in 1..Len(b.buf) |-> [h |-> b.buf[i], uc |-> FALSE, bad |-> FALSE]]

RECURSIVE HexPrefix(_)
HexPrefix(hex) ==
    IF hex = <<>> \/ Head(hex).bad THEN <<>> ELSE <<Head(hex).h>> \o HexPrefix(Tail(hex))

\* Buffer.from(s, 'hex'): either case is accepted, decoding stops at the first
\* character that is no hex digit
FromHex(hex) == Buf(HexPrefix(hex))

-----------------------------------------------------------------------------
(* Model manager: the class declarations of namespace org.test *)

NS == "org.test"

PrimitiveTypes == {"String", "Boolean", "Integer", "Long", "Double", "DateTime"}

EnumTypes == {"Color"}

Field(name, type) == [name |-> name, kind |-> "Field", type |-> type, array |-> FALSE]

ArrayField(name, type) == [name |-> name, kind |-> "Field", type |-> type, array |-> TRUE]

Relationship(name, type) ==
    [name |-> name, kind |-> "Relationship", type |-> type, array |-> FALSE]

ClassNames ==
    {"Thing", "Pair", "Triple", "Outer", "Inner", "Mixed", "Twin", "Tagged", "Colored",
     "Linked", "Late", "Broken",
     "PairBA", "TripleBAC", "MixedZA", "Couple", "Envelope", "Letter", "Blend"}

\* the class of the same shape under other class and property names
RenamedClass ==
    [Pair |-> "Couple", Outer |-> "Envelope", Inner |-> "Letter", Mixed |-> "Blend"]

\* the class that declares the same properties with two primitive fields exchanged
ExchangedClass == [Pair |-> "PairBA", Triple |-> "TripleBAC", Mixed |-> "MixedZA"]

getProperties(classDeclaration) ==
    CASE classDeclaration = "Thing"  -> <<Field("name", "String")>>
      [] classDeclaration = "Pair"   -> <<Field("a", "String"), Field("b", "Boolean")>>
      [] classDeclaration = "Triple" ->
            <<Field("a", "Integer"), Field("b", "Integer"), Field("c", "Integer")>>
      [] classDeclaration = "Outer"  -> <<Field("inner", "Inner")>>
      [] classDeclaration = "Inner"  -> <<Field("k", "String")>>
      [] classDeclaration = "Mixed"  ->
            <<Field("a", "String"), Field("inner", "Inner"), Field("z", "Integer")>>
      [] classDeclaration = "Twin"   -> <<Field("first", "Inner"), Field("second", "Inner")>>
      [] classDeclaration = "Tagged" -> <<ArrayField("tags", "String")>>
      [] classDeclaration = "Colored" -> <<Field("color", "Color")>>
      [] classDeclaration = "Linked" -> <<Relationship("owner", "Thing")>>
      [] classDeclaration = "Late" -> <<Field("a", "String"), ArrayField("tags", "String")>>
      [] classDeclaration = "Broken" -> <<Field("a", "String"), Field("inner", "Inner")>>
      [] classDeclaration = "Node" -> <<Field("next", "Node"), Field("v", "String")>>
      [] classDeclaration = "Couple" ->
            <<Field("first", "String"), Field("second", "Boolean")>>
      [] classDeclaration = "Envelope" -> <<Field("content", "Letter")>>
      [] classDeclaration = "Letter" -> <<Field("text", "String")>>
      [] classDeclaration = "Blend" ->
            <<Field("p", "String"), Field("q", "Letter"), Field("r", "Integer")>>
      [] classDeclaration = "PairBA" -> <<Field("b", "Boolean"), Field("a", "String")>>
      [] classDeclaration = "TripleBAC" ->
            <<Field("b", "Integer"), Field("a", "Integer"), Field("c", "Integer")>>
      [] classDeclaration = "MixedZA" ->
            <<Field("z", "Integer"), Field("inner", "Inner"), Field("a", "String")>>
      [] OTHER -> <<>>

isArray(field) == field.array

isPrimitive(field) == field.type \in PrimitiveTypes

isEnum(field) == field.type \in EnumTypes

\* modelManager.getType(`${ns}.${type}`)
getType(ns, type) == type

-----------------------------------------------------------------------------
(* Typed objects *)

Obj(type, vals) ==
    [type |-> type, vals |-> vals, salts |-> [n \in {} |-> Undefined]]

InitialHeap ==
    [ thing1  |-> Obj("Thing", [name |-> VString(<<"a", "l", "i", "c", "e">>)]),
      pair1   |-> Obj("Pair", [a |-> VString(<<"x">>), b |-> VBoolean(TRUE)]),
      triple1 |-> Obj("Triple", [a |-> VInteger(1), b |-> VInteger(1), c |-> VInteger(12)]),
      outer1  |-> Obj("Outer", [inner |-> VResource("inner1")]),
      inner1  |-> Obj("Inner", [k |-> VString(<<"v">>)]),
      mixed1  |-> Obj("Mixed", [a |-> VString(<<"x">>), inner |-> VResource("inner2"),
                                z |-> VInteger(2)]),
      inner2  |-> Obj("Inner", [k |-> VString(<<"v">>)]),
      twin1   |-> Obj("Twin", [first |-> VResource("inner3"), second |-> VResource("inner4")]),
      inner3  |-> Obj("Inner", [k |-> VString(<<"v">>)]),
      inner4  |-> Obj("Inner", [k |-> VString(<<"w">>)]),
      tagged1 |-> Obj("Tagged", [tags |-> [t |-> "Array"]]),
      colored1 |-> Obj("Colored", [color |-> VString(<<"r", "e", "d">>)]),
      linked1 |-> Obj("Linked", [owner |-> [t |-> "Relationship"]]),
      late1 |-> Obj("Late", [a |-> VString(<<"x">>), tags |-> [t |-> "Array"]]),
      broken1 |-> Obj("Broken", [a |-> VString(<<"x">>), inner |-> VString(<<"s">>)]),
      odd1 |-> Obj("Thing", [name |-> VResource("inner5")]),
      inner5 |-> Obj("Inner", [k |-> VString(<<"v">>)]),
      node1 |-> Obj("Node", [v |-> VString(<<"v">>)]),
      other1  |-> Obj("Pair", [a |-> VString(<<"x">>), b |-> VBoolean(FALSE)]) ]

TopRecords ==
    {"thing1", "pair1", "triple1", "outer1", "mixed1", "twin1", "tagged1", "colored1",
     "linked1", "late1", "broken1", "odd1", "node1"}

\* a Resource of another owner, salted independently of the one under test
OtherRecord == "other1"

\* typed[name]
getValue(h, ref, name) ==
    IF name \in DOMAIN h[ref].vals THEN h[ref].vals[name] ELSE Undefined

getSalt(h, ref, name) ==
    IF name \in DOMAIN h[ref].salts THEN h[ref].salts[name] ELSE Undefined

setSalt(h, ref, name, salt) ==
    [h EXCEPT ![ref].salts = [n \in DOMAIN @ \cup {name} |-> IF n = name THEN salt ELSE @[n]]]

getFullyQualifiedType(h, ref) == h[ref].type

-----------------------------------------------------------------------------
(* TypedStack and the outcome of a visit *)

push(P, v) == [P EXCEPT !.stack = Append(@, v)]

peek(P) == IF P.stack = <<>> THEN Undefined ELSE P.stack[Len(P.stack)]

pop(P) == [P EXCEPT !.stack = IF @ = <<>> THEN @ ELSE SubSeq(@, 1, Len(@) - 1)]

\* a visit returns ret and leaves the parameters object as P
Return(ret, P) == [err |-> "", ret |-> ret, P |-> P]

\* a visit throws
Throw(msg, P) == [err |-> msg, ret |-> Undefined, P |-> P]

\* The parameters object of a walk also keeps a record of the walk, which the walk
\* never reads: visits, the things visit was called with, in order; in the proof and
\* verify walks paths, the currentPath at each of these calls; in the verify walk
\* shifts, the currentPath of the class node at each hashes.shift().
Visited(thing, P) == [P EXCEPT !.visits = Append(@, thing)]

VisitedAt(thing, P) ==
    [P EXCEPT !.visits = Append(@, thing), !.paths = Append(@, P.currentPath)]

\* the property names an error of a walk carries: the errors the visitors throw have a
\* fixed message, followed for the two "Expected" errors by the entry popped from the
\* stack, and the errors the runtime throws name the operation that failed
ErrorContext(err) == {}

-----------------------------------------------------------------------------
(* RootVisitor *)

RECURSIVE RootVisitor_visitClassDeclaration(_, _), RootVisitor_visitField(_, _),
          RootVisitor_properties(_, _, _, _, _)

RootVisitor_visitRelationshipDeclaration(relationshipDeclaration, P) ==
    LET relationship == peek(P)
        P1 == pop(P)
    IN  IF relationship.t # "Relationship"
        THEN Throw("Expected a Relationship", P1)
        ELSE Throw("Not implemented for Relationships", P1)

\* property.accept(visitor, parameters), through RootVisitor.visit
RootVisitor_visit(thing, P) ==
    IF thing.kind = "Relationship"
    THEN RootVisitor_visitRelationshipDeclaration(thing, Visited(thing, P))
    ELSE RootVisitor_visitField(thing, Visited(thing, P))

\* faulty variant: each child digest is put in front of the ones collected so far
RECURSIVE RootVisitor_properties_reversed(_, _, _, _, _)
RootVisitor_properties_reversed(properties, i, typedRef, hashes, P) ==
    IF i > Len(properties)
    THEN Return(Sha256(hashes), P)
    ELSE LET name == properties[i].name
             value == getValue(P.heap, typedRef, name)
             salt == getSalt(P.heap, typedRef, name)
             hash == RootVisitor_visit(properties[i], push(push(P, value), salt))
         IN  IF hash.err # "" THEN hash
             ELSE RootVisitor_properties_reversed(properties, i + 1, typedRef,
                                                  hash.ret.buf \o hashes, hash.P)

\* the for loop of visitClassDeclaration from property i on, then the digest
RootVisitor_properties(properties, i, typedRef, hashes, P) ==
    IF i > Len(properties)
    THEN Return(Sha256(hashes), P)
    ELSE LET name == properties[i].name
             value == getValue(P.heap, typedRef, name)
             salt == getSalt(P.heap, typedRef, name)
             hash == RootVisitor_visit(properties[i], push(push(P, value), salt))
         IN  IF hash.err # "" THEN hash
             ELSE RootVisitor_properties(properties, i + 1, typedRef,
                                         hashes \o hash.ret.buf, hash.P)

RootVisitor_visitClassDeclaration(classDeclaration, P) ==
    LET top == peek(P)
        P1 == pop(P)
    IN  IF ~IsResource(top)
        THEN Throw("Expected a Resource", P1)
        ELSE RootVisitor_properties(getProperties(classDeclaration), 1, top.ref, <<>>, P1)

\* faulty variant: the visit of a field pops one entry, as the visit of a relationship does
RootVisitor_visitField_popOne(field, P) ==
    LET salt == peek(P)
        value == peek(pop(P))
        P2 == pop(P)
    IN  IF isArray(field) THEN Throw("Not implemented for Array fields", P2)
        ELSE IF isPrimitive(field)
        THEN IF ~Stringifiable(value) \/ ~IsBuffer(salt)
             THEN Throw("TypeError", P2)
             ELSE Return(Sha256(JSONStringify(value) \o salt.buf), P2)
        ELSE IF isEnum(field) THEN Throw("Not implemented for Enum fields", P2)
        ELSE IF ~IsResource(value)
        THEN Throw("TypeError", push(P2, value))
        ELSE RootVisitor_visitClassDeclaration(
                 getType(NS, getFullyQualifiedType(P.heap, value.ref)), push(P2, value))

\* faulty variant: a leaf without a salt is hashed as if its salt were empty
RootVisitor_visitField_unsalted(field, P) ==
    LET salt == peek(P)
        value == peek(pop(P))
        P2 == pop(pop(P))
    IN  IF isArray(field) THEN Throw("Not implemented for Array fields", P2)
        ELSE IF isPrimitive(field)
        THEN IF ~Stringifiable(value)
             THEN Throw("TypeError", P2)
             ELSE Return(Sha256(JSONStringify(value)
                                \o (IF IsBuffer(salt) THEN salt.buf ELSE <<>>)), P2)
        ELSE IF isEnum(field) THEN Throw("Not implemented for Enum fields", P2)
        ELSE IF ~IsResource(value)
        THEN Throw("TypeError", push(P2, value))
        ELSE RootVisitor_visitClassDeclaration(
                 getType(NS, getFullyQualifiedType(P.heap, value.ref)), push(P2, value))

\* faulty variant: the leaf digest covers the name of the field as well
RootVisitor_visitField_named(field, P) ==
    LET salt == peek(P)
        value == peek(pop(P))
        P2 == pop(pop(P))
    IN  IF isArray(field) THEN Throw("Not implemented for Array fields", P2)
        ELSE IF isPrimitive(field)
        THEN IF ~Stringifiable(value) \/ ~IsBuffer(salt)
             THEN Throw("TypeError", P2)
             ELSE Return(Sha256(<<Ch(field.name)>> \o JSONStringify(value) \o salt.buf), P2)
        ELSE IF isEnum(field) THEN Throw("Not implemented for Enum fields", P2)
        ELSE IF ~IsResource(value)
        THEN Throw("TypeError", push(P2, value))
        ELSE RootVisitor_visitClassDeclaration(
                 getType(NS, getFullyQualifiedType(P.heap, value.ref)), push(P2, value))

RootVisitor_visitField(field, P) ==
    LET salt == peek(P)
        value == peek(pop(P))
        P2 == pop(pop(P))
    IN  IF isArray(field) THEN Throw("Not implemented for Array fields", P2)
        ELSE IF isPrimitive(field)
        THEN IF ~Stringifiable(value) \/ ~IsBuffer(salt)
             THEN Throw("TypeError", P2)      \* hash.update(undefined)
             ELSE Return(Sha256(JSONStringify(value) \o salt.buf), P2)
        ELSE IF isEnum(field) THEN Throw("Not implemented for Enum fields", P2)
        ELSE IF ~IsResource(value)
        THEN Throw("TypeError", push(P2, value))   \* value.getFullyQualifiedType()
        ELSE RootVisitor_visitClassDeclaration(
                 getType(NS, getFullyQualifiedType(P.heap, value.ref)), push(P2, value))

-----------------------------------------------------------------------------
(* SaltVisitor *)

RECURSIVE SaltVisitor_visitClassDeclaration(_, _), SaltVisitor_visitField(_, _),
          SaltVisitor_properties(_, _, _, _)

\* crypto.randomBytes(32): a value never drawn before
randomBytes(P) == Buf(<<[rnd |-> P.rnd + 1]>>)

SaltVisitor_visitRelationshipDeclaration(relationshipDeclaration, P) ==
    LET relationship == peek(P)
        P1 == pop(P)
    IN  IF relationship.t # "Relationship"
        THEN Throw("Expected a Relationship", P1)
        ELSE Throw("Not implemented for Relationships", P1)

SaltVisitor_visit(thing, P) ==
    IF thing.kind = "Relationship"
    THEN SaltVisitor_visitRelationshipDeclaration(thing, Visited(thing, P))
    ELSE SaltVisitor_visitField(thing, Visited(thing, P))

\* faulty variant: a salt that is stored already is kept
RECURSIVE SaltVisitor_properties_keep(_, _, _, _)
SaltVisitor_properties_keep(properties, i, typedRef, P) ==
    IF i > Len(properties)
    THEN Return(Undefined, P)
    ELSE LET name == properties[i].name
             value == getValue(P.heap, typedRef, name)
             salt == SaltVisitor_visit(properties[i], push(P, value))
         IN  IF salt.err # "" THEN salt
             ELSE SaltVisitor_properties_keep(properties, i + 1, typedRef,
                    IF IsBuffer(salt.ret) /\ ~IsBuffer(getSalt(salt.P.heap, typedRef, name))
                    THEN [salt.P EXCEPT !.heap = setSalt(@, typedRef, name, salt.ret)]
                    ELSE salt.P)

SaltVisitor_properties(properties, i, typedRef, P) ==
    IF i > Len(properties)
    THEN Return(Undefined, P)
    ELSE LET name == properties[i].name
             value == getValue(P.heap, typedRef, name)
             salt == SaltVisitor_visit(properties[i], push(P, value))
         IN  IF salt.err # "" THEN salt
             ELSE SaltVisitor_properties(properties, i + 1, typedRef,
                    IF IsBuffer(salt.ret)
                    THEN [salt.P EXCEPT !.heap = setSalt(@, typedRef, name, salt.ret)]
                    ELSE salt.P)

SaltVisitor_visitClassDeclaration(classDeclaration, P) ==
    LET top == peek(P)
        P1 == pop(P)
    IN  IF ~IsResource(top)
        THEN Throw("Expected a Resource", P1)
        ELSE SaltVisitor_properties(getProperties(classDeclaration), 1, top.ref, P1)

\* faulty variant: a nested-class field gets a salt of its own as well
SaltVisitor_visitField_everyField(field, P) ==
    LET value == peek(P)
        P1 == pop(P)
    IN  IF isArray(field) THEN Throw("Not implemented for Array fields", P1)
        ELSE IF isPrimitive(field)
        THEN Return(randomBytes(P1), [P1 EXCEPT !.rnd = @ + 1])
        ELSE IF isEnum(field) THEN Throw("Not implemented for Enum fields", P1)
        ELSE IF ~IsResource(value)
        THEN Throw("TypeError", push(P1, value))
        ELSE LET r == SaltVisitor_visitClassDeclaration(
                          getType(NS, getFullyQualifiedType(P.heap, value.ref)),
                          push(P1, value))
             IN  IF r.err # "" THEN r
                 ELSE Return(randomBytes(r.P), [r.P EXCEPT !.rnd = @ + 1])

SaltVisitor_visitField(field, P) ==
    LET value == peek(P)
        P1 == pop(P)
    IN  IF isArray(field) THEN Throw("Not implemented for Array fields", P1)
        ELSE IF isPrimitive(field)
        THEN Return(randomBytes(P1), [P1 EXCEPT !.rnd = @ + 1])
        ELSE IF isEnum(field) THEN Throw("Not implemented for Enum fields", P1)
        ELSE IF ~IsResource(value)
        THEN Throw("TypeError", push(P1, value))
        ELSE LET r == SaltVisitor_visitClassDeclaration(
                          getType(NS, getFullyQualifiedType(P.heap, value.ref)),
                          push(P1, value))
             IN  IF r.err # "" THEN r ELSE Return(Null, r.P)

-----------------------------------------------------------------------------
(* merkle/utils *)

pathEquals(p1, p2) == Len(p1) = Len(p2) /\ \A i \in 1..Len(p1) : p1[i] = p2[i]

\* faulty variant: the digests met after the child are put in front of after
RECURSIVE splitProofFrom_unshift(_, _, _, _, _)
splitProofFrom_unshift(p, i, before, child, after) ==
    IF i > Len(p) THEN [before |-> before, child |-> child, after |-> after]
    ELSE IF ~IsBuffer(p[i]) THEN splitProofFrom_unshift(p, i + 1, before, p[i], after)
    ELSE IF child = Null
    THEN splitProofFrom_unshift(p, i + 1, Append(before, p[i]), child, after)
    ELSE splitProofFrom_unshift(p, i + 1, before, child, <<p[i]>> \o after)

\* the for loop of splitProof from entry i on; child is Null until a non-Buffer is met
RECURSIVE splitProofFrom(_, _, _, _, _)
splitProofFrom(p, i, before, child, after) ==
    IF i > Len(p) THEN [before |-> before, child |-> child, after |-> after]
    ELSE IF ~IsBuffer(p[i]) THEN splitProofFrom(p, i + 1, before, p[i], after)
    ELSE IF child = Null THEN splitProofFrom(p, i + 1, Append(before, p[i]), child, after)
    ELSE splitProofFrom(p, i + 1, before, child, Append(after, p[i]))

splitProof(p) == splitProofFrom(p, 1, <<>>, Null, <<>>)

-----------------------------------------------------------------------------
(* ProofVisitor *)

\* the disclosure { $value: true, value, salt }
Disclosure(value, salt) == [dvalue |-> TRUE, value |-> value, salt |-> salt]

IsDisclosure(e) == "dvalue" \in DOMAIN e

\* a JavaScript array
Arr(entries) == [arr |-> entries]

IsArr(e) == DOMAIN e = {"arr"}

RECURSIVE ProofVisitor_visitClassDeclaration(_, _), ProofVisitor_visitField(_, _),
          ProofVisitor_properties(_, _, _, _, _)

ProofVisitor_visitRelationshipDeclaration(relationshipDeclaration, P) ==
    LET relationship == peek(P)
        P1 == pop(P)
    IN  IF relationship.t # "Relationship"
        THEN Throw("Expected a Relationship", P1)
        ELSE Throw("Not implemented for Relationships", P1)

ProofVisitor_visit(thing, P) ==
    IF thing.kind = "Relationship"
    THEN ProofVisitor_visitRelationshipDeclaration(thing, VisitedAt(thing, P))
    ELSE ProofVisitor_visitField(thing, VisitedAt(thing, P))

ProofVisitor_properties(properties, i, typedRef, results, P) ==
    IF i > Len(properties)
    THEN Return(Arr(results), P)
    ELSE LET name == properties[i].name
             P1 == [P EXCEPT !.currentPath = Append(@, name)]
             value == getValue(P.heap, typedRef, name)
             salt == getSalt(P.heap, typedRef, name)
             result == ProofVisitor_visit(properties[i], push(push(P1, value), salt))
         IN  IF result.err # "" THEN result
             ELSE ProofVisitor_properties(properties, i + 1, typedRef,
                    Append(results, result.ret),
                    [result.P EXCEPT !.currentPath = SubSeq(@, 1, Len(@) - 1)])

ProofVisitor_visitClassDeclaration(classDeclaration, P) ==
    LET P0 == [P EXCEPT !.root = FALSE]
        top == peek(P0)
        P1 == pop(P0)
    IN  IF ~IsResource(top)
        THEN Throw("Expected a Resource", P1)
        ELSE ProofVisitor_properties(getProperties(classDeclaration), 1, top.ref, <<>>, P1)

\* faulty variant: the leaf is recognised by its own name, not by the whole path
ProofVisitor_visitField_nameOnly(field, P) ==
    LET salt == peek(P)
        value == peek(pop(P))
        P2 == pop(pop(P))
    IN  IF isArray(field) THEN Throw("Not implemented for Array fields", P2)
        ELSE IF isPrimitive(field)
        THEN IF P.path # <<>> /\ P.path[Len(P.path)] = P.currentPath[Len(P.currentPath)]
             THEN Return(Disclosure(value, salt), P2)
             ELSE IF ~Stringifiable(value) \/ ~IsBuffer(salt)
             THEN Throw("TypeError", P2)
             ELSE Return(Sha256(JSONStringify(value) \o salt.buf), P2)
        ELSE IF isEnum(field) THEN Throw("Not implemented for Enum fields", P2)
        ELSE IF ~IsResource(value)
        THEN Throw("TypeError", push(P2, value))
        ELSE ProofVisitor_visitClassDeclaration(
                 getType(NS, getFullyQualifiedType(P.heap, value.ref)), push(P2, value))

ProofVisitor_visitField(field, P) ==
    LET salt == peek(P)
        value == peek(pop(P))
        P2 == pop(pop(P))
    IN  IF isArray(field) THEN Throw("Not implemented for Array fields", P2)
        ELSE IF isPrimitive(field)
        THEN IF pathEquals(P.path, P.currentPath)
             THEN Return(Disclosure(value, salt), P2)
             ELSE IF ~Stringifiable(value) \/ ~IsBuffer(salt)
             THEN Throw("TypeError", P2)
             ELSE Return(Sha256(JSONStringify(value) \o salt.buf), P2)
        ELSE IF isEnum(field) THEN Throw("Not implemented for Enum fields", P2)
        ELSE IF ~IsResource(value)
        THEN Throw("TypeError", push(P2, value))
        ELSE ProofVisitor_visitClassDeclaration(
                 getType(NS, getFullyQualifiedType(P.heap, value.ref)), push(P2, value))

-----------------------------------------------------------------------------
(* VerifyVisitor *)

RECURSIVE VerifyVisitor_visitClassDeclaration(_, _), VerifyVisitor_visitField(_, _),
          VerifyVisitor_properties(_, _, _)

VerifyVisitor_visitRelationshipDeclaration(relationshipDeclaration, P) ==
    Throw("Not implemented for Relationships", P)

VerifyVisitor_visit(thing, P) ==
    IF thing.kind = "Relationship"
    THEN VerifyVisitor_visitRelationshipDeclaration(thing, VisitedAt(thing, P))
    ELSE VerifyVisitor_visitField(thing, VisitedAt(thing, P))

\* the bytes of a list of Buffers, one after the other
RECURSIVE Concat(_)
Concat(bufs) == IF bufs = <<>> THEN <<>> ELSE Head(bufs).buf \o Concat(Tail(bufs))

\* faulty variant: hashes.pop() in place of hashes.shift()
RECURSIVE VerifyVisitor_properties_popLast(_, _, _)
VerifyVisitor_properties_popLast(properties, i, P) ==
    IF i > Len(properties)
    THEN Return(Null, P)
    ELSE LET name == properties[i].name
             result == VerifyVisitor_visit(properties[i],
                                           [P EXCEPT !.currentPath = Append(@, name)])
             P1 == [result.P EXCEPT !.currentPath = SubSeq(@, 1, Len(@) - 1)]
         IN  IF result.err # "" THEN result
             ELSE IF IsBuffer(result.ret)
             THEN IF P1.hashes = <<>>
                  THEN Throw("TypeError", P1)
                  ELSE LET before == P1.hashes[Len(P1.hashes)][1]
                           after == P1.hashes[Len(P1.hashes)][2]
                       IN  Return(Sha256(Concat(before) \o result.ret.buf \o Concat(after)),
                                  [P1 EXCEPT !.hashes = SubSeq(@, 1, Len(@) - 1),
                                             !.shifts = Append(@, P1.currentPath)])
             ELSE VerifyVisitor_properties_popLast(properties, i + 1, P1)

\* faulty variant: on a match the node returns before currentPath.pop()
RECURSIVE VerifyVisitor_properties_noPop(_, _, _)
VerifyVisitor_properties_noPop(properties, i, P) ==
    IF i > Len(properties)
    THEN Return(Null, P)
    ELSE LET name == properties[i].name
             result == VerifyVisitor_visit(properties[i],
                                           [P EXCEPT !.currentPath = Append(@, name)])
             P1 == [result.P EXCEPT !.currentPath = SubSeq(@, 1, Len(@) - 1)]
         IN  IF result.err # "" THEN result
             ELSE IF IsBuffer(result.ret)
             THEN IF result.P.hashes = <<>>
                  THEN Throw("TypeError", result.P)
                  ELSE LET before == Head(result.P.hashes)[1]
                           after == Head(result.P.hashes)[2]
                       IN  Return(Sha256(Concat(before) \o result.ret.buf \o Concat(after)),
                                  [result.P EXCEPT !.hashes = Tail(@),
                                                   !.shifts = Append(@, P.currentPath)])
             ELSE VerifyVisitor_properties_noPop(properties, i + 1, P1)

VerifyVisitor_properties(properties, i, P) ==
    IF i > Len(properties)
    THEN Return(Null, P)
    ELSE LET name == properties[i].name
             result == VerifyVisitor_visit(properties[i],
                                           [P EXCEPT !.currentPath = Append(@, name)])
             P1 == [result.P EXCEPT !.currentPath = SubSeq(@, 1, Len(@) - 1)]
         IN  IF result.err # "" THEN result
             ELSE IF IsBuffer(result.ret)
             THEN IF P1.hashes = <<>>
                  THEN Throw("TypeError", P1)     \* destructuring of hashes.shift()
                  ELSE LET before == Head(P1.hashes)[1]
                           after == Head(P1.hashes)[2]
                       IN  Return(Sha256(Concat(before) \o result.ret.buf \o Concat(after)),
                                  [P1 EXCEPT !.hashes = Tail(@),
                                             !.shifts = Append(@, P1.currentPath)])
             ELSE VerifyVisitor_properties(properties, i + 1, P1)

\* a call nested deeper than the call stack has room for ends the walk with a RangeError
VerifyVisitor_visitClassDeclaration(classDeclaration, P) ==
    IF Len(P.currentPath) >= MaxDepth
    THEN Throw("RangeError", P)
    ELSE VerifyVisitor_properties(getProperties(classDeclaration), 1,
                                  [P EXCEPT !.root = FALSE])

VerifyVisitor_visitField(field, P) ==
    IF isArray(field) THEN Throw("Not implemented for Array fields", P)
    ELSE IF isPrimitive(field)
    THEN IF pathEquals(P.path, P.currentPath)
         THEN IF ~Stringifiable(P.value)
              THEN Throw("TypeError", P)
              ELSE Return(Sha256(JSONStringify(P.value) \o P.salt.buf), P)
         ELSE Return(Null, P)
    ELSE IF isEnum(field) THEN Throw("Not implemented for Enum fields", P)
    ELSE VerifyVisitor_visitClassDeclaration(getType(NS, field.type), P)

-----------------------------------------------------------------------------
(* Merkle *)

\* new TypedStack(typed)
TypedStack(resource) == <<resource>>

\* salt(typed): the outcome and the heap and random source it leaves
salt(h, r, typedRef) ==
    SaltVisitor_visitClassDeclaration(
        getType(NS, getFullyQualifiedType(h, typedRef)),
        [heap |-> h, rnd |-> r, visits |-> <<>>, stack |-> TypedStack(VResource(typedRef))])

\* faulty variant: the visitor is kept between calls and goes on hashing into what it returned
root_accumulating(h, typedRef) ==
    LET digest == RootVisitor_visitClassDeclaration(
                      getType(NS, getFullyQualifiedType(h, typedRef)),
                      [heap |-> h, visits |-> <<>>, stack |-> TypedStack(VResource(typedRef))])
    IN  IF digest.err # "" THEN [err |-> digest.err, hex |-> <<>>, heap |-> digest.P.heap]
        ELSE IF rootOut.called /\ rootOut.err = ""
        THEN [err |-> "", hex |-> ToHex(Sha256(FromHex(rootOut.hex).buf \o digest.ret.buf)),
              heap |-> digest.P.heap]
        ELSE [err |-> "", hex |-> ToHex(digest.ret), heap |-> digest.P.heap]

\* faulty variant: the digest is kept on the record, in its salt store, for later calls
root_memoizing(h, typedRef) ==
    LET digest == RootVisitor_visitClassDeclaration(
                      getType(NS, getFullyQualifiedType(h, typedRef)),
                      [heap |-> h, visits |-> <<>>, stack |-> TypedStack(VResource(typedRef))])
    IN  IF digest.err # "" THEN [err |-> digest.err, hex |-> <<>>, heap |-> digest.P.heap]
        ELSE [err |-> "", hex |-> ToHex(digest.ret),
              heap |-> setSalt(digest.P.heap, typedRef, "$root", digest.ret)]

\* root(typed): the outcome, and the heap the walk leaves
root(h, typedRef) ==
    LET digest == RootVisitor_visitClassDeclaration(
                      getType(NS, getFullyQualifiedType(h, typedRef)),
                      [heap |-> h, visits |-> <<>>, stack |-> TypedStack(VResource(typedRef))])
    IN  IF digest.err # "" THEN [err |-> digest.err, hex |-> <<>>, heap |-> digest.P.heap]
        ELSE [err |-> "", hex |-> ToHex(digest.ret), heap |-> digest.P.heap]

HexAll(bufs) == [i \in 1..Len(bufs) |-> ToHex(bufs[i])]

\* proof threw
NoProof(msg) == [err |-> msg, hashes |-> <<>>, value |-> Undefined, salt |-> <<>>]

\* faulty variant: hashes.push in place of hashes.unshift
RECURSIVE proofLoop_push(_, _)
proofLoop_push(p, hashes) ==
    LET s == splitProof(p.arr)
        hashes1 == hashes \o <<<<HexAll(s.before), HexAll(s.after)>>>>
    IN  IF s.child = Null THEN NoProof("TypeError")
        ELSE IF IsDisclosure(s.child)
        THEN IF ~IsBuffer(s.child.salt) THEN NoProof("TypeError")
             ELSE [err |-> "", hashes |-> hashes1, value |-> s.child.value,
                   salt |-> ToHex(s.child.salt)]
        ELSE proofLoop_push(s.child, hashes1)

\* faulty variant: the loop ends without a proof and without an error when no entry of
\* a level is the child on the path
RECURSIVE proofLoop_silent(_, _)
proofLoop_silent(p, hashes) ==
    LET s == splitProof(p.arr)
        hashes1 == <<<<HexAll(s.before), HexAll(s.after)>>>> \o hashes
    IN  IF s.child = Null THEN NoProof("")
        ELSE IF IsDisclosure(s.child)
        THEN IF ~IsBuffer(s.child.salt) THEN NoProof("TypeError")
             ELSE [err |-> "", hashes |-> hashes1, value |-> s.child.value,
                   salt |-> ToHex(s.child.salt)]
        ELSE proofLoop_silent(s.child, hashes1)

\* the while loop of proof from raw structure p on
RECURSIVE proofLoop(_, _)
proofLoop(p, hashes) ==
    LET s == splitProof(p.arr)
        hashes1 == <<<<HexAll(s.before), HexAll(s.after)>>>> \o hashes
    IN  IF s.child = Null THEN NoProof("TypeError")                \* child.$value
        ELSE IF IsDisclosure(s.child)
        THEN IF ~IsBuffer(s.child.salt) THEN NoProof("TypeError")  \* child.salt.toString
             ELSE [err |-> "", hashes |-> hashes1, value |-> s.child.value,
                   salt |-> ToHex(s.child.salt)]
        ELSE proofLoop(s.child, hashes1)

\* the structure the proof visitor hands to proof: classDeclaration.accept(visitor, ...)
proofWalk(h, typedRef, path) ==
    ProofVisitor_visitClassDeclaration(
        getType(NS, getFullyQualifiedType(h, typedRef)),
        [heap |-> h, root |-> TRUE, path |-> path, currentPath |-> <<>>,
         visits |-> <<>>, paths |-> <<>>, stack |-> TypedStack(VResource(typedRef))])

\* proof(typed, path)
proof(h, typedRef, path) ==
    LET raw == proofWalk(h, typedRef, path)
    IN  IF raw.err # "" THEN NoProof(raw.err) ELSE proofLoop(raw.ret, <<>>)

UnhexAll(hexes) == [i \in 1..Len(hexes) |-> FromHex(hexes[i])]

\* the walk verify makes: classDeclaration.accept(visitor, parameters)
verifyWalk(ns, type, path, prf) ==
    LET parsedHashes == [i \in 1..Len(prf.hashes) |->
                            <<UnhexAll(prf.hashes[i][1]), UnhexAll(prf.hashes[i][2])>>]
    IN  VerifyVisitor_visitClassDeclaration(getType(ns, type),
            [hashes |-> parsedHashes, value |-> prf.value, salt |-> FromHex(prf.salt),
             path |-> path, currentPath |-> <<>>, root |-> FALSE,
             visits |-> <<>>, paths |-> <<>>, shifts |-> <<>>])

\* faulty variant: any digest the walk returns is taken for the root
verify_truthy(ns, type, path, rootHex, prf) ==
    LET actualRoot == verifyWalk(ns, type, path, prf)
    IN  IF actualRoot.err # "" THEN [err |-> actualRoot.err, ok |-> FALSE]
        ELSE [err |-> "", ok |-> IsBuffer(actualRoot.ret)]

\* verify(ns, type, path, root, proof)
verify(ns, type, path, rootHex, prf) ==
    LET actualRoot == verifyWalk(ns, type, path, prf)
    IN  IF actualRoot.err # "" THEN [err |-> actualRoot.err, ok |-> FALSE]
        ELSE IF ~IsBuffer(actualRoot.ret)
        THEN [err |-> "TypeError", ok |-> FALSE]          \* null.toString('hex')
        ELSE [err |-> "", ok |-> ToHex(actualRoot.ret) = rootHex]

-----------------------------------------------------------------------------
(* Callers of the Merkle object *)

\* the paths a caller asks about: every property of the class and of its nested
\* classes, the empty path and a name no class declares
RECURSIVE PropertyPaths(_, _)
PropertyPaths(classDeclaration, prefix) ==
    LET properties == getProperties(classDeclaration)
    IN  UNION { {Append(prefix, properties[i].name)} \cup
                (IF properties[i].kind = "Field" /\ ~isArray(properties[i])
                    /\ properties[i].type \in ClassNames
                 THEN PropertyPaths(properties[i].type, Append(prefix, properties[i].name))
                 ELSE {}) : i \in 1..Len(properties) }

PathCandidates(classDeclaration) ==
    PropertyPaths(classDeclaration, <<>>) \cup {<<>>, <<"nosuch">>}

\* values a forged proof may carry
TamperValues ==
    {VString(<<"b", "o", "b">>), VString(<<"x">>), VInteger(12), VBoolean(TRUE)}

\* the same hex digits in upper case
UpperCase(hex) == [i \in 1..Len(hex) |-> [hex[i] EXCEPT !.uc = TRUE]]

\* salts a forged proof may carry: one never drawn, ones drawn for other fields, and
\* the genuine salt written in upper case
TamperSalts(prf) ==
    ({ToHex(Buf(<<[rnd |-> k]>>)) : k \in 0..2} \ {prf.salt}) \cup {UpperCase(prf.salt)}

\* digests a forged proof may carry: one of no record, and the disclosed leaf's own
TamperDigests(prf) ==
    {ToHex(Sha256(<<>>)), ToHex(Sha256(JSONStringify(prf.value) \o FromHex(prf.salt).buf))}

\* entry j of list side (1 before, 2 after) of level i replaced by digest d
ReplaceDigest(prf, i, side, j, d) ==
    [prf EXCEPT !.hashes[i][side][j] = d]

\* the before and after lists of level i exchanged
SwapLists(prf, i) ==
    [prf EXCEPT !.hashes[i] = <<@[2], @[1]>>]

\* prf with one more (before, after) entry at the end of hashes
Appended(prf) ==
    {[prf EXCEPT !.hashes = Append(@, e)] :
        e \in {<< <<>>, <<>> >>, << <<ToHex(Sha256(<<>>))>>, <<>> >>}}

\* prf without the first, or without the last, entry of hashes
Dropped(prf) ==
    IF prf.hashes = <<>> THEN {}
    ELSE {[prf EXCEPT !.hashes = Tail(@)], [prf EXCEPT !.hashes = SubSeq(@, 1, Len(@) - 1)]}

\* the hex encoding of the bytes of all the entries of list, as one entry
Merged(list) == <<[i \in 1..Len(Concat(UnhexAll(list))) |->
                    [h |-> Concat(UnhexAll(list))[i], uc |-> FALSE, bad |-> FALSE]]>>

\* proofs that hash the same bytes as prf at every level with other entry lengths: the
\* last digit of an Integer value moved to the front of the salt (33 bytes), the
\* entries of a before or after list joined into one entry (64 bytes or more), and an
\* empty entry (0 bytes) added to a before list
Resized(prf) ==
    (IF prf.value.t = "Integer" /\ prf.value.n >= 10
     THEN {[prf EXCEPT !.value = VInteger(prf.value.n \div 10),
                       !.salt = ToHex(Buf(<<Head(Digits(prf.value.n % 10))>>)) \o @]}
     ELSE {})
    \cup UNION { { [prf EXCEPT !.hashes[i][side] = Merged(@)] :
                     side \in {sd \in {1, 2} : Len(prf.hashes[i][sd]) >= 2} } :
                 i \in 1..Len(prf.hashes) }
    \cup {[prf EXCEPT !.hashes[i][1] = Append(@, <<>>)] : i \in 1..Len(prf.hashes)}

\* the forgeries of proof prf: one part of it changed
Forgeries(prf) ==
    {[kind |-> "value", prf |-> [prf EXCEPT !.value = v]] : v \in TamperValues \ {prf.value}}
    \cup {[kind |-> "salt", prf |-> [prf EXCEPT !.salt = s]] : s \in TamperSalts(prf)}
    \cup UNION { UNION { UNION { {[kind |-> "digest",
                                   prf |-> ReplaceDigest(prf, i, side, j, d)] :
                                     d \in TamperDigests(prf) \ {prf.hashes[i][side][j]}} :
                                 j \in 1..Len(prf.hashes[i][side])} :
                         side \in {1, 2}} :
                 i \in 1..Len(prf.hashes)}
    \cup {[kind |-> "swap", prf |-> SwapLists(prf, i)] :
            i \in {l \in 1..Len(prf.hashes) : prf.hashes[l][1] # prf.hashes[l][2]}}
    \cup {[kind |-> "append", prf |-> f] : f \in Appended(prf)}
    \cup {[kind |-> "drop", prf |-> f] : f \in Dropped(prf)}
    \cup {[kind |-> "resize", prf |-> f] : f \in Resized(prf)}

\* the objects a walk from ref reaches through the nested-class fields of its class,
\* and their state
RECURSIVE Reach(_, _)
Reach(h, ref) ==
    LET properties == getProperties(h[ref].type)
        nested == {i \in 1..Len(properties) :
                     /\ properties[i].kind = "Field" /\ ~isArray(properties[i])
                     /\ ~isPrimitive(properties[i]) /\ ~isEnum(properties[i])
                     /\ IsResource(getValue(h, ref, properties[i].name))}
    IN  {ref} \cup UNION {Reach(h, getValue(h, ref, properties[i].name).ref) : i \in nested}

RecordState(h, ref) == [o \in Reach(h, ref) |-> h[o]]

NoCall(op) ==
    [op |-> op, rec |-> "", path |-> <<>>, kind |-> "", prf |-> NoProof(""), err |-> "",
     ok |-> FALSE]

Init ==
    /\ heap = InitialHeap
    /\ typed \in TopRecords
    /\ rnd = 0
    /\ saltCalls = 0
    /\ rootOut = [called |-> FALSE, err |-> "", hex |-> <<>>,
                  h |-> RecordState(InitialHeap, typed),
                  repeat |-> FALSE, prevErr |-> "", prevHex |-> <<>>]
    /\ proofOut = [called |-> FALSE, path |-> <<>>, prf |-> NoProof(""), raw |-> Undefined,
                   h |-> RecordState(InitialHeap, typed)]
    /\ last = NoCall("")

\* merkle.salt(r): whatever the walk wrote before it returned or threw stays written
SaltCall(r) ==
    /\ saltCalls < MaxSaltCalls
    /\ LET out == salt(heap, rnd, r)
       IN  /\ heap' = out.P.heap
           /\ rnd' = out.P.rnd
           /\ last' = [NoCall("salt") EXCEPT !.rec = r, !.err = out.err]
    /\ saltCalls' = saltCalls + 1
    /\ UNCHANGED <<typed, rootOut, proofOut>>

Salt == SaltCall(typed)

SaltOther == SaltCall(OtherRecord)

\* merkle.root(typed): the record is left as the walk leaves it; repeat, prevErr and
\* prevHex keep what the call before gave when that call ran on the same state of the
\* record
Root ==
    /\ LET out == root(heap, typed)
           again == rootOut.called /\ rootOut.h = RecordState(heap, typed)
       IN  /\ rootOut' = [called |-> TRUE, err |-> out.err, hex |-> out.hex,
                          h |-> RecordState(heap, typed), repeat |-> again,
                          prevErr |-> IF again THEN rootOut.err ELSE "",
                          prevHex |-> IF again THEN rootOut.hex ELSE <<>>]
           /\ last' = [NoCall("root") EXCEPT !.rec = typed, !.err = out.err]
           /\ heap' = out.heap
    /\ UNCHANGED <<typed, rnd, saltCalls, proofOut>>

\* merkle.proof(typed, path): the record is left as the walk leaves it
Proof ==
    \E path \in PathCandidates(getFullyQualifiedType(heap, typed)) :
        /\ LET out == proof(heap, typed, path)
               walk == proofWalk(heap, typed, path)
           IN  /\ proofOut' = [called |-> TRUE, path |-> path, prf |-> out,
                               raw |-> walk.ret, h |-> RecordState(heap, typed)]
               /\ last' = [NoCall("proof") EXCEPT !.rec = typed, !.path = path,
                                                  !.err = out.err]
               /\ heap' = walk.P.heap
        /\ UNCHANGED <<typed, rnd, saltCalls, rootOut>>

\* the outcome of merkle.verify(NS, type of typed, path, rootOut.hex, prf); verify is
\* not handed the record
VerifyCall(path, kind, prf) ==
    /\ rootOut.called /\ rootOut.err = ""
    /\ proofOut.called /\ proofOut.prf.err = ""
    /\ LET out == verify(NS, getFullyQualifiedType(heap, typed), path, rootOut.hex, prf)
       IN  last' = [op |-> "verify", rec |-> typed, path |-> path, kind |-> kind,
                    prf |-> prf, err |-> out.err, ok |-> out.ok]
    /\ UNCHANGED <<heap, typed, rnd, saltCalls, rootOut, proofOut>>

\* a holder of the last root and of the last proof verifies the proof for some path
Verify ==
    \E path \in PathCandidates(getFullyQualifiedType(heap, typed)) :
        VerifyCall(path, "none", proofOut.prf)

\* a holder of the last root verifies a forgery of the last proof for the proof's path
VerifyForged ==
    \E f \in (IF proofOut.prf.err = "" THEN Forgeries(proofOut.prf) ELSE {}) :
        VerifyCall(proofOut.path, f.kind, f.prf)

\* a verifier is asked about a class that declares an array field, an enum field or a
\* relationship, with a root and a proof of the right form
VerifyUnsupported ==
    /\ getProperties(getFullyQualifiedType(heap, typed))[1].kind = "Relationship"
          \/ isArray(getProperties(getFullyQualifiedType(heap, typed))[1])
          \/ isEnum(getProperties(getFullyQualifiedType(heap, typed))[1])
    /\ \E v \in TamperValues :
          LET path == <<getProperties(getFullyQualifiedType(heap, typed))[1].name>>
              prf == [err |-> "", hashes |-> << << <<>>, <<>> >> >>, value |-> v,
                      salt |-> ToHex(Buf(<<[rnd |-> 0]>>))]
              out == verify(NS, getFullyQualifiedType(heap, typed), path,
                            ToHex(Sha256(<<>>)), prf)
          IN  last' = [op |-> "verify", rec |-> typed, path |-> path,
                       kind |-> "unsupported", prf |-> prf, err |-> out.err,
                       ok |-> out.ok]
    /\ UNCHANGED <<heap, typed, rnd, saltCalls, rootOut, proofOut>>

\* a verifier is asked about a class that declares a nested-class field of its own
\* type, for the path of a primitive field declared after it
VerifySelfNested ==
    /\ \E i \in 1..Len(getProperties(getFullyQualifiedType(heap, typed))) :
          getProperties(getFullyQualifiedType(heap, typed))[i].type
              = getFullyQualifiedType(heap, typed)
    /\ \E v \in TamperValues :
          LET properties == getProperties(getFullyQualifiedType(heap, typed))
              path == <<properties[Len(properties)].name>>
              prf == [err |-> "", hashes |-> << << <<ToHex(Sha256(<<>>))>>, <<>> >> >>,
                      value |-> v, salt |-> ToHex(Buf(<<[rnd |-> 0]>>))]
              out == verify(NS, getFullyQualifiedType(heap, typed), path,
                            ToHex(Sha256(<<>>)), prf)
          IN  last' = [op |-> "verify", rec |-> typed, path |-> path,
                       kind |-> "recursive", prf |-> prf, err |-> out.err,
                       ok |-> out.ok]
    /\ UNCHANGED <<heap, typed, rnd, saltCalls, rootOut, proofOut>>

Next ==
    \/ Salt \/ SaltOther \/ Root \/ Proof \/ Verify \/ VerifyForged
    \/ VerifyUnsupported \/ VerifySelfNested

Spec == Init /\ [][Next]_vars

-----------------------------------------------------------------------------
(* Vocabulary of the properties *)

\* index of the property called name in the class, 0 when there is none
PropertyIndex(classDeclaration, name) ==
    LET properties == getProperties(classDeclaration)
        found == {i \in 1..Len(properties) : properties[i].name = name}
    IN  IF found = {} THEN 0 ELSE CHOOSE i \in found : TRUE

IsPrimitiveField(property) ==
    property.kind = "Field" /\ ~isArray(property) /\ isPrimitive(property)

IsClassField(property) ==
    property.kind = "Field" /\ ~isArray(property) /\ ~isPrimitive(property) /\ ~isEnum(property)

\* path leads from object ref through nested-class fields to a primitive field
RECURSIVE IsLeafPath(_, _, _)
IsLeafPath(h, ref, path) ==
    /\ path # <<>>
    /\ LET cls == h[ref].type
           i == PropertyIndex(cls, Head(path))
       IN  /\ i # 0
           /\ LET property == getProperties(cls)[i]
              IN  IF Len(path) = 1 THEN IsPrimitiveField(property)
                  ELSE /\ IsClassField(property)
                       /\ IsResource(getValue(h, ref, property.name))
                       /\ IsLeafPath(h, getValue(h, ref, property.name).ref, Tail(path))

\* the object that directly holds the leaf path addresses
RECURSIVE HolderOf(_, _, _)
HolderOf(h, ref, path) ==
    IF Len(path) = 1 THEN ref ELSE HolderOf(h, getValue(h, ref, Head(path)).ref, Tail(path))

LeafName(path) == path[Len(path)]

\* every primitive field of every object reached from ref has a salt in its own store
Salted(h, ref) ==
    \A o \in Reach(h, ref) :
        \A i \in 1..Len(getProperties(h[o].type)) :
            IsPrimitiveField(getProperties(h[o].type)[i]) =>
                IsBuffer(getSalt(h, o, getProperties(h[o].type)[i].name))

IsPrefix(p, q) == Len(p) <= Len(q) /\ SubSeq(q, 1, Len(p)) = p

\* a Buffer holding one SHA-256 digest
IsDigest(e) == IsBuffer(e) /\ Len(e.buf) = 1 /\ DOMAIN e.buf[1] = {"sha256"}

\* the last call was verify, of the last proof unforged (kind "none") or forged, against
\* the last root, root and proof having been computed on the same state of the record
Verified(kind) ==
    /\ last.op = "verify"
    /\ last.kind = kind
    /\ rootOut.h = proofOut.h

-----------------------------------------------------------------------------
(* C1 - C5 *)

\* C1: round trip.  For a record salted by salt(record) and a path to a primitive leaf,
\* proof(record, path) returns a proof, and verify of that proof against root(record)
\* for the same path returns true.
C1_RoundTrip ==
    /\ (last.op = "proof" /\ Salted(heap, typed) /\ IsLeafPath(heap, typed, last.path))
          => proofOut.prf.err = ""
    /\ (Verified("none") /\ last.path = proofOut.path) => (last.err = "" /\ last.ok)

\* C2: path confusion.  A proof for path A verified for a path B different from A,
\* against the root of the same record, returns false.
C2_PathConfusion ==
    (Verified("none") /\ last.path # proofOut.path) => (last.err = "" /\ ~last.ok)

\* C3: leaf tamper soundness.  A proof changed only in its value (to one with another
\* canonical encoding) or only in its salt (to another salt) is verified false for
\* the proof's path against the root of the same record.
C3_LeafTamper ==
    /\ (Verified("value")
          /\ JSONStringify(last.prf.value) # JSONStringify(proofOut.prf.value))
          => (last.err = "" /\ ~last.ok)
    /\ (Verified("salt") /\ FromHex(last.prf.salt) # FromHex(proofOut.prf.salt))
          => (last.err = "" /\ ~last.ok)

C3_Witness ==
    /\ Verified("salt")
    /\ FromHex(last.prf.salt) # FromHex(proofOut.prf.salt)
    /\ Len(proofOut.path) = 2
    /\ last.err = "" /\ ~last.ok

\* C4: sibling tamper soundness.  A proof in which one before/after digest is replaced
\* by another 32-byte digest, or in which the before and after lists of a level that
\* differ are exchanged, is verified false for the proof's path against the root of
\* the same record.
C4_SiblingTamper ==
    (Verified("digest") \/ Verified("swap")) => (last.err = "" /\ ~last.ok)

C4_Witness ==
    /\ Verified("swap")
    /\ \E i \in 1..Len(proofOut.prf.hashes) :
          /\ proofOut.prf.hashes[i][1] # <<>>
          /\ proofOut.prf.hashes[i][2] # <<>>
    /\ last.err = "" /\ ~last.ok

\* the list a class node of the proof walk returned holds at most one entry that is no
\* digest, and a list only for a nested-class property the path goes through
RECURSIVE RawListOk(_, _, _, _)
RawListOk(e, classDeclaration, prefix, path) ==
    LET properties == getProperties(classDeclaration)
    IN  /\ Cardinality({i \in 1..Len(e.arr) : ~IsDigest(e.arr[i])}) <= 1
        /\ \A i \in 1..Len(e.arr) :
              IsArr(e.arr[i]) =>
                  /\ IsPrefix(Append(prefix, properties[i].name), path)
                  /\ RawListOk(e.arr[i], properties[i].type,
                               Append(prefix, properties[i].name), path)

\* C5: in the proof walk the list of per-child results of every class node holds only
\* 32-byte digests but for at most one entry, the disclosure or the nested structure of
\* the child on the path; a nested-class child off the path contributes a digest.
C5_OneNonDigest ==
    (last.op = "proof" /\ IsArr(proofOut.raw) /\ IsLeafPath(heap, typed, proofOut.path)) =>
        RawListOk(proofOut.raw, getFullyQualifiedType(heap, typed), <<>>, proofOut.path)

-----------------------------------------------------------------------------
(* C6 - C10 *)

\* the digest the root engine computes for property i of object ref, hex encoded
RootDigestOf(h, ref, i) ==
    LET property == getProperties(h[ref].type)[i]
        P == [heap |-> h, visits |-> <<>>,
              stack |-> <<getValue(h, ref, property.name),
                                      getSalt(h, ref, property.name)>>]
    IN  ToHex(RootVisitor_visit(property, P).ret)

\* for each object on the path, leaf's holder first: the digests of the properties
\* declared before the one on the path, and of those declared after it
RECURSIVE SiblingDigests(_, _, _)
SiblingDigests(h, ref, path) ==
    LET n == Len(getProperties(h[ref].type))
        i == PropertyIndex(h[ref].type, Head(path))
        here == << [j \in 1..(i - 1) |-> RootDigestOf(h, ref, j)],
                   [j \in 1..(n - i) |-> RootDigestOf(h, ref, i + j)] >>
    IN  IF Len(path) = 1 THEN <<here>>
        ELSE SiblingDigests(h, getValue(h, ref, Head(path)).ref, Tail(path)) \o <<here>>

\* C6: at every level of proof(record, path), before holds one digest for each
\* property declared before the property on the path and after one for each property
\* declared after it, in declaration order, each the digest the root engine computes
\* for that sibling.
C6_BeforeAfter ==
    (last.op = "proof" /\ proofOut.prf.err = "" /\ Salted(heap, typed)) =>
        proofOut.prf.hashes = SiblingDigests(heap, typed, proofOut.path)

Range(f) == {f[x] : x \in DOMAIN f}

\* the digests of the primitive siblings among those of SiblingDigests, level by level
RECURSIVE PrimitiveSiblingDigests(_, _, _)
PrimitiveSiblingDigests(h, ref, path) ==
    LET properties == getProperties(h[ref].type)
        i == PropertyIndex(h[ref].type, Head(path))
        here == {RootDigestOf(h, ref, j) :
                    j \in {k \in 1..Len(properties) : k # i /\ IsPrimitiveField(properties[k])}}
    IN  IF Len(path) = 1 THEN <<here>>
        ELSE PrimitiveSiblingDigests(h, getValue(h, ref, Head(path)).ref, Tail(path))
                \o <<here>>

\* C7: hashes of proof(record, path) has one entry per element of path, leaf first:
\* entry i holds digests of siblings in the class i - 1 levels above the leaf's class
\* (all its primitive siblings, and none of another level), so the first entry is the
\* leaf's class and the last the top-level class.
C7_LeafFirst ==
    (last.op = "proof" /\ proofOut.prf.err = "" /\ Salted(heap, typed)) =>
        LET hashes == proofOut.prf.hashes
            all == SiblingDigests(heap, typed, proofOut.path)
            prim == PrimitiveSiblingDigests(heap, typed, proofOut.path)
        IN  /\ Len(hashes) = Len(proofOut.path)
            /\ \A i \in 1..Len(hashes) :
                  LET got == Range(hashes[i][1]) \cup Range(hashes[i][2])
                  IN  /\ prim[i] \subseteq got
                      /\ got \subseteq Range(all[i][1]) \cup Range(all[i][2])

C7_Witness ==
    /\ last.op = "proof" /\ proofOut.prf.err = "" /\ Salted(heap, typed)
    /\ Len(proofOut.path) = 2
    /\ proofOut.prf.hashes[1] = << <<>>, <<>> >>
    /\ proofOut.prf.hashes[2][1] # <<>> /\ proofOut.prf.hashes[2][2] # <<>>

\* a hex string that encodes one SHA-256 digest
IsDigestHex(hex) == Len(hex) = 1 /\ DOMAIN hex[1].h = {"sha256"}

\* C8: proof(record, path) discloses the addressed leaf and nothing else: value is the
\* value stored at path, salt is the hex encoding of the salt stored under the leaf's
\* name in the store of the object that directly holds the leaf, and everything else
\* in the proof is a digest.
C8_DisclosesLeaf ==
    (last.op = "proof" /\ proofOut.prf.err = "") =>
        LET holder == HolderOf(heap, typed, proofOut.path)
            name == LeafName(proofOut.path)
        IN  /\ IsLeafPath(heap, typed, proofOut.path)
            /\ proofOut.prf.value = getValue(heap, holder, name)
            /\ proofOut.prf.salt = ToHex(getSalt(heap, holder, name))
            /\ \A i \in 1..Len(proofOut.prf.hashes) : \A side \in {1, 2} :
                  \A j \in 1..Len(proofOut.prf.hashes[i][side]) :
                      IsDigestHex(proofOut.prf.hashes[i][side][j])

C8_Witness ==
    /\ last.op = "proof" /\ proofOut.prf.err = ""
    /\ Len(proofOut.path) = 2
    /\ HolderOf(heap, typed, proofOut.path) # typed
    /\ proofOut.prf.salt = ToHex(getSalt(heap, HolderOf(heap, typed, proofOut.path), "k"))

\* the reference Merkle root: a primitive field gives SHA256(canonical(value) || salt),
\* a nested-class field the node hash of the nested object, and a node the SHA256 of
\* its children's digests in declaration order
RECURSIVE NodeHash(_, _)
NodeHash(h, ref) ==
    LET properties == getProperties(h[ref].type)
        child(i) ==
            IF IsPrimitiveField(properties[i])
            THEN Sha256(JSONStringify(h[ref].vals[properties[i].name])
                        \o h[ref].salts[properties[i].name].buf)
            ELSE NodeHash(h, h[ref].vals[properties[i].name].ref)
    IN  Sha256(Concat([i \in 1..Len(properties) |-> child(i)]))

\* C9: root(record) is the reference Merkle root of the record.
C9_ReferenceRoot ==
    (last.op = "root" /\ rootOut.err = "") => rootOut.hex = ToHex(NodeHash(heap, typed))

C9_Witness ==
    /\ last.op = "root" /\ rootOut.err = ""
    /\ typed = "mixed1"
    /\ rootOut.hex = ToHex(NodeHash(heap, typed))

-----------------------------------------------------------------------------
(* C11 - C15 *)

\* C11: root, proof and verify are read-only.  A step that makes one of these calls,
\* whether the call returns or raises, leaves every field value and every salt store
\* of every record as it was.
C11_ReadOnly ==
    [][last'.op \in {"root", "proof", "verify"} => heap' = heap]_vars

C11_Witness ==
    /\ last.op = "proof" /\ proofOut.prf.err # ""
    /\ Salted(heap, typed) /\ typed = "mixed1"
    /\ proofOut.h = RecordState(heap, typed)
    /\ rootOut.called /\ rootOut.err = "" /\ rootOut.h = proofOut.h

\* the salt store of object o: a 32-byte salt under the name of every primitive field
\* of its class, and no entry under the name of a nested-class field
SaltStoreOk(h, o) ==
    LET properties == getProperties(h[o].type)
    IN  \A i \in 1..Len(properties) :
           /\ IsPrimitiveField(properties[i]) =>
                 /\ IsBuffer(getSalt(h, o, properties[i].name))
                 /\ ByteLen(getSalt(h, o, properties[i].name).buf) = 32
           /\ IsClassField(properties[i]) => properties[i].name \notin DOMAIN h[o].salts

\* C12: after salt(record) returns normally, every primitive leaf reached from the
\* record through nested-class fields has a 32-byte salt under its property name in the
\* store of the object that directly holds it, and no store has an entry for a
\* nested-class field.
C12_SaltStores ==
    (last.op = "salt" /\ last.err = "") =>
        \A o \in Reach(heap, last.rec) : SaltStoreOk(heap, o)

C12_Witness ==
    /\ last.op = "salt" /\ last.err = "" /\ last.rec = "mixed1"
    /\ DOMAIN heap["mixed1"].salts = {"a", "z"}
    /\ DOMAIN heap["inner2"].salts = {"k"}

\* the record ref as an instance of the class with two fields exchanged: the same
\* value and the same salt under each property name
AsExchanged(h, ref) == [h EXCEPT ![ref].type = ExchangedClass[@]]

\* C13: order sensitivity.  A salted record and the record that holds the same value and
\* the same salt under each property name, of the class that declares the same
\* properties with two primitive fields exchanged, have different roots.
C13_OrderSensitivity ==
    (last.op = "root" /\ rootOut.err = ""
        /\ getFullyQualifiedType(heap, typed) \in DOMAIN ExchangedClass) =>
        LET other == root(AsExchanged(heap, typed), typed)
        IN  other.err = "" /\ other.hex # rootOut.hex

C13_Witness ==
    /\ last.op = "root" /\ rootOut.err = "" /\ typed = "triple1"
    /\ getValue(heap, typed, "a") = getValue(heap, typed, "b")
    /\ root(AsExchanged(heap, typed), typed).err = ""
    /\ root(AsExchanged(heap, typed), typed).hex # rootOut.hex

\* object obj as an instance of the renamed class: the value and the salt of the
\* property in position i are held under the name of position i of the renamed class
Renamed(obj) ==
    LET ps == getProperties(obj.type)
        qs == getProperties(RenamedClass[obj.type])
        pos(n) == CHOOSE i \in 1..Len(qs) : qs[i].name = n
    IN  [type |-> RenamedClass[obj.type],
         vals |-> [n \in {qs[i].name : i \in 1..Len(qs)} |-> obj.vals[ps[pos(n)].name]],
         salts |-> [n \in {qs[i].name : i \in {j \in 1..Len(qs) :
                                                  ps[j].name \in DOMAIN obj.salts}} |->
                       obj.salts[ps[pos(n)].name]]]

\* the record ref and its nested records as instances of the renamed classes
AsRenamed(h, ref) ==
    [o \in DOMAIN h |-> IF o \in Reach(h, ref) THEN Renamed(h[o]) ELSE h[o]]

\* C14: the root depends on the shape of the class, the declaration order, the
\* canonical encodings of the values and the salts only.  A record and the record of a
\* class of the same shape with other class and property names, holding the same values
\* and salts position by position, have the same root.
C14_ShapeOnly ==
    (last.op = "root" /\ getFullyQualifiedType(heap, typed) \in DOMAIN RenamedClass) =>
        LET other == root(AsRenamed(heap, typed), typed)
        IN  other.err = rootOut.err /\ other.hex = rootOut.hex

C14_Witness ==
    /\ last.op = "root" /\ rootOut.err = "" /\ typed = "mixed1"
    /\ getFullyQualifiedType(AsRenamed(heap, typed), "inner2") = "Letter"
    /\ IsBuffer(getSalt(AsRenamed(heap, typed), "inner2", "text"))
    /\ root(AsRenamed(heap, typed), typed).hex = rootOut.hex

NotImplementedErrors ==
    {"Not implemented for Array fields", "Not implemented for Enum fields",
     "Not implemented for Relationships"}

\* the walk of the class reaches an array field, an enum field or a relationship
\* before anything else: its first property is one
FirstUnsupported(classDeclaration) ==
    LET property == getProperties(classDeclaration)[1]
    IN  property.kind = "Relationship" \/ isArray(property) \/ isEnum(property)

\* C15: salt, root and proof raise a not-implemented error whenever the walk reaches
\* an array field, an enum field, or a relationship property that holds a Relationship.
C15_NotImplemented ==
    (last.op \in {"salt", "root", "proof"} /\ last.rec = typed
        /\ FirstUnsupported(getFullyQualifiedType(heap, typed))) =>
        last.err \in NotImplementedErrors

-----------------------------------------------------------------------------
(* C16 - C20 *)

\* C16: root(record) and proof(record, path) raise an error and return no digest and no
\* proof when a primitive leaf of the record has no salt in the store of the object that
\* holds it, as when salt(record) never ran.
C16_SaltMissing ==
    /\ (last.op = "root" /\ ~Salted(heap, typed)) =>
          (rootOut.err # "" /\ rootOut.hex = <<>>)
    /\ (last.op = "proof" /\ ~Salted(heap, typed)) =>
          (proofOut.prf.err # "" /\ proofOut.prf = NoProof(proofOut.prf.err))

C16_Witness ==
    /\ last.op = "proof" /\ ~Salted(heap, typed) /\ saltCalls = 0
    /\ typed = "thing1" /\ proofOut.path = <<"name">>
    /\ proofOut.prf.err = "TypeError"
    /\ rootOut.called /\ rootOut.err = "TypeError"

\* C17: proof(record, path) raises an error and returns no proof when path is empty,
\* when it names a nested-class field and no primitive leaf, or when it names no
\* property of the classes of the record.
C17_PathInvalid ==
    (last.op = "proof" /\ ~IsLeafPath(heap, typed, proofOut.path)) =>
        (proofOut.prf.err # "" /\ proofOut.prf = NoProof(proofOut.prf.err))

C17_Witness ==
    /\ last.op = "proof" /\ Salted(heap, typed) /\ typed = "mixed1"
    /\ proofOut.path = <<"inner">>
    /\ IsArr(proofOut.raw)
    /\ proofOut.prf.err = "TypeError"

\* C18: verify returns false for a proof whose hashes holds more entries than there
\* are class levels on the path, as a genuine proof with one more entry appended.
C18_Surplus ==
    (Verified("append") /\ Len(last.prf.hashes) > Len(last.path)) =>
        (last.err = "" /\ ~last.ok)

\* C19: verify returns false and does not raise when hashes holds fewer entries than
\* there are class levels on the path, and when the class it walks declares an array
\* field, an enum field or a relationship.
C19_Shortfall ==
    /\ (Verified("drop") /\ Len(last.prf.hashes) < Len(last.path)) =>
          (last.err = "" /\ ~last.ok)
    /\ (last.op = "verify" /\ last.kind = "unsupported") => (last.err = "" /\ ~last.ok)

\* every salt and every before and after entry of the proof decodes to 32 bytes
ProofLengthsOk(prf) ==
    /\ ByteLen(FromHex(prf.salt).buf) = 32
    /\ \A i \in 1..Len(prf.hashes) : \A side \in {1, 2} :
          \A j \in 1..Len(prf.hashes[i][side]) :
              ByteLen(FromHex(prf.hashes[i][side][j]).buf) = 32

\* C20: verify never returns true for a proof whose salt, or one of whose before and
\* after entries, is not exactly 32 bytes long.
C20_Lengths ==
    (last.op = "verify" /\ ~ProofLengthsOk(last.prf)) => ~last.ok

-----------------------------------------------------------------------------
(* C21 - C25 *)

\* C21: a salt(record) call that raises leaves no salt it wrote: the salt stores of the
\* record and of its nested records are what they were before the call.
C21_NoPartialSalts ==
    [][(last'.op = "salt" /\ last'.err # "") => heap' = heap]_vars

\* a value of object ref disagrees with the classifier of its property: a nested-class
\* field that holds no nested record, or a primitive field that holds one
Mismatched(h, ref) ==
    \E i \in 1..Len(getProperties(h[ref].type)) :
        LET property == getProperties(h[ref].type)[i]
            value == getValue(h, ref, property.name)
        IN  \/ IsClassField(property) /\ ~IsResource(value)
            \/ IsPrimitiveField(property) /\ IsResource(value)

\* C22: salt, root and proof raise an error, and return no result, on a record one of
\* whose values disagrees with the declared classifier of its property.
C22_TypeMismatch ==
    (last.op \in {"salt", "root", "proof"} /\ last.rec = typed /\ Mismatched(heap, typed)) =>
        last.err # ""

\* C23: every error salt, root or proof raises carries the property name at which it
\* occurred; for the class { String[] tags } the error names the property tags.
C23_ErrorNamesProperty ==
    (last.op \in {"salt", "root", "proof"} /\ last.rec = typed /\ last.err # "") =>
        /\ \E o \in Reach(heap, typed) : \E i \in 1..Len(getProperties(heap[o].type)) :
              getProperties(heap[o].type)[i].name \in ErrorContext(last.err)
        /\ typed = "tagged1" => "tags" \in ErrorContext(last.err)

\* an entry of the stack that belongs to a visit further up
Below == [t |-> "below"]

\* the visit of property i of object o, in each of the three walks, started on a stack
\* that holds Below and the entries pushed for the visit, leaves Below alone on the
\* stack when it returns normally
VisitBalanced(h, o, i, path) ==
    LET property == getProperties(h[o].type)[i]
        value == getValue(h, o, property.name)
        s == SaltVisitor_visit(property,
                 [heap |-> h, rnd |-> 0, visits |-> <<>>, stack |-> <<Below, value>>])
        r == RootVisitor_visit(property,
                 [heap |-> h, visits |-> <<>>,
                  stack |-> <<Below, value, getSalt(h, o, property.name)>>])
        p == ProofVisitor_visit(property,
                 [heap |-> h, root |-> FALSE, path |-> path,
                  currentPath |-> <<property.name>>, visits |-> <<>>, paths |-> <<>>,
                  stack |-> <<Below, value, getSalt(h, o, property.name)>>])
    IN  /\ s.err = "" => s.P.stack = <<Below>>
        /\ r.err = "" => r.P.stack = <<Below>>
        /\ p.err = "" => p.P.stack = <<Below>>

\* the walk root(record) makes
rootWalk(h, typedRef) ==
    RootVisitor_visitClassDeclaration(
        getType(NS, getFullyQualifiedType(h, typedRef)),
        [heap |-> h, visits |-> <<>>, stack |-> TypedStack(VResource(typedRef))])

RECURSIVE WalkPaths(_, _, _)
WalkPaths(h, ref, prefix) ==
    LET properties == getProperties(h[ref].type)
        below(i) == LET value == getValue(h, ref, properties[i].name)
                    IN  IF IsClassField(properties[i]) /\ IsResource(value)
                        THEN WalkPaths(h, value.ref, Append(prefix, properties[i].name))
                        ELSE <<>>
        from[i \in 1..(Len(properties) + 1)] ==
            IF i > Len(properties) THEN <<>>
            ELSE <<Append(prefix, properties[i].name)>> \o below(i) \o from[i + 1]
    IN  from[1]

\* the paths of the properties a whole walk of the class visits, in the order of the
\* visits
RECURSIVE SchemaPaths(_, _)
SchemaPaths(classDeclaration, prefix) ==
    LET properties == getProperties(classDeclaration)
        below(i) == IF IsClassField(properties[i]) /\ properties[i].type \in ClassNames
                    THEN SchemaPaths(properties[i].type, Append(prefix, properties[i].name))
                    ELSE <<>>
        from[i \in 1..(Len(properties) + 1)] ==
            IF i > Len(properties) THEN <<>>
            ELSE <<Append(prefix, properties[i].name)>> \o below(i) \o from[i + 1]
    IN  from[1]

\* C25: path-stack invariant.  In the proof and verify walks currentPath is, at the
\* visit of a property, the property names from the top-level class down to that
\* property; when the walk returns, currentPath is empty again, in verify also when
\* the class nodes return early on a match.
C25_PathStack ==
    /\ \A path \in PathCandidates(getFullyQualifiedType(heap, typed)) :
          LET w == proofWalk(heap, typed, path)
          IN  /\ IsPrefix(w.P.paths, WalkPaths(heap, typed, <<>>))
              /\ w.err = "" => (w.P.paths = WalkPaths(heap, typed, <<>>)
                                /\ w.P.currentPath = <<>>)
    /\ (last.op = "verify" /\ getFullyQualifiedType(heap, typed) \in ClassNames) =>
          LET w == verifyWalk(NS, getFullyQualifiedType(heap, typed), last.path, last.prf)
          IN  /\ IsPrefix(w.P.paths,
                          SchemaPaths(getFullyQualifiedType(heap, typed), <<>>))
              /\ w.err = "" => w.P.currentPath = <<>>

C25_Witness ==
    /\ Verified("none") /\ last.err = "" /\ typed = "twin1"
    /\ last.path = <<"second", "k">>
    /\ verifyWalk(NS, "Twin", last.path, last.prf).P.paths
         = << <<"first">>, <<"first", "k">>, <<"second">>, <<"second", "k">> >>
    /\ verifyWalk(NS, "Twin", last.path, last.prf).P.currentPath = <<>>

-----------------------------------------------------------------------------
(* C26 - C30 *)

\* the lists of the raw structure e of a proof walk: e and the lists nested in it
RECURSIVE RawLevels(_)
RawLevels(e) ==
    {e.arr} \cup UNION {RawLevels(e.arr[i]) : i \in {j \in 1..Len(e.arr) : IsArr(e.arr[j])}}

\* splitProof splits a list with one non-digest entry at that entry
SplitAtChild(list) ==
    LET nonDigests == {i \in 1..Len(list) : ~IsBuffer(list[i])}
        i == CHOOSE j \in nonDigests : TRUE
        s == splitProof(list)
    IN  Cardinality(nonDigests) = 1 =>
           /\ s.before = SubSeq(list, 1, i - 1)
           /\ s.child = list[i]
           /\ s.after = SubSeq(list, i + 1, Len(list))
           /\ Len(s.before) + Len(s.after) + 1 = Len(list)

\* C26: splitProof applied to a list with exactly one non-digest entry, at index i,
\* returns the entries below i as before, the entry at i as child and the entries above
\* i as after, each in the order of the list.
C26_SplitProof ==
    (proofOut.called /\ IsArr(proofOut.raw)) =>
        \A list \in RawLevels(proofOut.raw) : SplitAtChild(list)

C26_Witness ==
    /\ last.op = "proof" /\ typed = "triple1" /\ proofOut.path = <<"a">>
    /\ IsArr(proofOut.raw)
    /\ IsDisclosure(splitProof(proofOut.raw.arr).child)
    /\ splitProof(proofOut.raw.arr).before = <<>>
    /\ Len(splitProof(proofOut.raw.arr).after) = 2

\* the class nodes on path, deepest first, each by the path that leads to it
NodesOnPath(path) == [k \in 1..Len(path) |-> SubSeq(path, 1, Len(path) - k)]

\* C27: in a verify call for a path of n levels, the class nodes that remove an entry
\* from the front of hashes are the n class nodes on the path, deepest first and one
\* entry each; a class node none of whose children returned a digest removes none.  So
\* a call that returns has consumed the first n entries and no other.
C27_Consumption ==
    (last.op = "verify" /\ getFullyQualifiedType(heap, typed) \in ClassNames
        /\ IsLeafPath(heap, typed, last.path)) =>
        LET w == verifyWalk(NS, getFullyQualifiedType(heap, typed), last.path, last.prf)
            n == Len(last.path)
            given == verifyWalk(NS, getFullyQualifiedType(heap, typed), <<>>, last.prf).P.hashes
        IN  /\ IsPrefix(w.P.shifts, NodesOnPath(last.path))
            /\ w.P.hashes = SubSeq(given, Len(w.P.shifts) + 1, Len(given))
            /\ last.err = "" => w.P.shifts = NodesOnPath(last.path)

C27_Witness ==
    /\ Verified("append") /\ last.err = "" /\ typed = "twin1"
    /\ last.path = <<"second", "k">>
    /\ verifyWalk(NS, "Twin", last.path, last.prf).P.shifts = << <<"second">>, <<>> >>
    /\ Len(verifyWalk(NS, "Twin", last.path, last.prf).P.hashes) = 1

\* C28: the verify walk over a class visits the same properties, in the same order, as
\* the root walk over a record of that class (and as the salt and proof walks).
C28_SameWalk ==
    (last.op = "verify" /\ last.err = ""
        /\ getFullyQualifiedType(heap, typed) \in ClassNames
        /\ rootWalk(heap, typed).err = "") =>
        verifyWalk(NS, getFullyQualifiedType(heap, typed), last.path, last.prf).P.visits
            = rootWalk(heap, typed).P.visits

\* C29: termination.  Every salt, root, proof and verify call ends by returning or by
\* raising an error of its own after finitely many visits; none goes on until the call
\* stack is used up, also when a class declares a nested-class field of its own type
\* before the property on the path.
C29_Termination ==
    last.err # "RangeError"

\* the paths of the primitive leaves of the record
LeafPaths(h, ref) ==
    {WalkPaths(h, ref, <<>>)[i] :
        i \in {j \in 1..Len(WalkPaths(h, ref, <<>>)) :
                  IsLeafPath(h, ref, WalkPaths(h, ref, <<>>)[j])}}

\* the salt stored for the leaf at path
SaltAt(h, ref, path) == getSalt(h, HolderOf(h, ref, path), LeafName(path))

\* C30: salt(record) keeps no salt.  After a call that returns, the salt stored for
\* every primitive leaf is one drawn in that call; a root computed before the call was
\* computed over salts that are stored no longer and is not the root of the record any
\* more, and the salt of a proof computed before the call is not the stored salt.
C30_Resalt ==
    (last.op = "salt" /\ last.err = "" /\ last.rec = typed) =>
        /\ \A path \in LeafPaths(heap, typed) :
              /\ IsBuffer(SaltAt(heap, typed, path))
              /\ SaltAt(heap, typed, path).buf[1].rnd
                    > rnd - Cardinality(LeafPaths(heap, typed))
              /\ SaltAt(heap, typed, path) # SaltAt(rootOut.h, typed, path)
        /\ (rootOut.called /\ rootOut.err = "") => root(heap, typed).hex # rootOut.hex
        /\ (proofOut.called /\ proofOut.prf.err = "") =>
              proofOut.prf.salt # ToHex(SaltAt(heap, typed, proofOut.path))

C30_Witness ==
    /\ last.op = "salt" /\ last.err = "" /\ last.rec = typed /\ typed = "mixed1"
    /\ saltCalls = 2
    /\ rootOut.called /\ rootOut.err = "" /\ Salted(rootOut.h, typed)
    /\ proofOut.called /\ proofOut.prf.err = ""
    /\ root(heap, typed).hex # rootOut.hex

====
